---- MODULE Spec2Model ----
(***************************************************************************)
(* The device-identity resolution pipeline of UDIProcessor                 *)
(* (src/code/preprocess/preprocessor.py): build_lookup, build_udi_mapping, *)
(* process_all (ChunkResolver) and _post_process_complex_cases             *)
(* (FallbackResolver), run in the order of UDIProcessor.process.           *)
(*                                                                         *)
(* Relations (polars frames) are sequences of records.  A null cell is the *)
(* string NULL; a null count is NoCount; a nullable boolean is one of the  *)
(* strings "true", "false", NULL.  The registry's primary identifier       *)
(* column udi_di is taken to be non-null; every other string column of the *)
(* model may be null where the input sets below say so.  The date columns  *)
(* (publish_date, report_date) reach no value any formula below reads and  *)
(* are left out of the rows.  Both input relations hold at least one row:  *)
(* what the chunk loop leaves behind for an empty relation is decided in   *)
(* code/utils/chunk.py.                                                    *)
(*                                                                         *)
(* Spec is one run of process().  SpecFailures adds a write failure of the *)
(* chunk in flight in ChunkResolver and a new run of process() on the same *)
(* inputs over the files the failed run left.  SpecEncoded is one run over *)
(* events whose identifier may come from the encoded field udi_public.     *)
(* failures, chunk_log and built are history variables that no action's    *)
(* guard or result reads.                                                  *)
(***************************************************************************)
EXTENDS Integers, Sequences, FiniteSets, TLC

NULL == "null"
NoCount == 0

\* ---------------------------------------------------------------- bounds
MaxReg == 2      \* registry rows
MaxEv == 2       \* event rows
MaxFailures == 1 \* write failures in one history

\* The chunk_size arguments tried: one row per chunk, and two.
ChunkSizes == {1, 2}

\* ---------------------------------------------------------------- input sets
Brand == "X"

ModelOf(u) == IF u = "U1" THEN "M1" ELSE "M2"

\* A registry row <<udi_di, manufacturer, catalog_number, secondary id>>;
\* secondary_list is pl.concat_list(secondary_cols) of the row (one column).
RegRow(t) ==
    [udi_di |-> t[1], manufacturer |-> t[2], brand |-> Brand,
     model_number |-> ModelOf(t[1]), catalog_number |-> t[3],
     secondary_list |-> t[4]]

RegRows ==
    {RegRow(t) : t \in {<<"U1", "A", "C1", NULL>>,   \* a plain entry
                        <<"U1", "A", "C1", "S1">>,   \* the same, with a secondary id
                        <<"U2", "A", "C1", "S1">>,   \* same key and secondary id
                        <<"U2", "A", "C2", NULL>>,   \* same partial key only
                        <<"U1", NULL, "C1", NULL>>}} \* null manufacturer

\* An event row <<declared identifier, encoded field, manufacturer, catalog>>
\* as read by process().
EventRow(t) ==
    [udi_di |-> t[1], udi_public |-> t[2], manufacturer |-> t[3],
     brand |-> Brand, catalog_number |-> t[4]]

EventRows ==
    {EventRow(t) : t \in {<<NULL, NULL, "A", "C1">>,
                          <<"U1", NULL, "A", "C1">>,
                          <<"S1", NULL, "A", "C1">>,
                          <<NULL, NULL, "A", NULL>>,
                          <<NULL, NULL, "B", NULL>>}}

\* Event rows with an encoded field: parseable, malformed, and parseable next
\* to a declared identifier.
EncodedEventRows ==
    {EventRow(t) : t \in {<<NULL, "(01)S1", "A", "C1">>,
                          <<NULL, "(01", "A", "C1">>,
                          <<"U1", "(01)S1", "A", "C1">>,
                          <<NULL, NULL, "A", "C1">>}}

\* ---------------------------------------------------------------- helpers
\* The non-empty sequences over S of at most n elements.
SeqsUpTo(S, n) == UNION {[1..k -> S] : k \in 1..n}

Min(a, b) == IF a < b THEN a ELSE b

Range(s) == {s[i] : i \in 1..Len(s)}

\* The rows of s whose index satisfies Keep, in order.
SelectIdx(s, Keep(_)) ==
    LET F[i \in 0..Len(s)] ==
            IF i = 0 THEN <<>>
            ELSE IF Keep(i) THEN Append(F[i - 1], s[i]) ELSE F[i - 1]
    IN  F[Len(s)]

\* The distinct values of s, each at its first appearance.
Distinct(s) == SelectIdx(s, LAMBDA i : \A j \in 1..(i - 1) : s[j] # s[i])

MapSeq(s, Op(_)) == [i \in 1..Len(s) |-> Op(s[i])]

\* pl.coalesce: the first non-null value.
Coalesce2(a, b) == IF a # NULL THEN a ELSE b
Coalesce3(a, b, c) == Coalesce2(a, Coalesce2(b, c))
Coalesce4(a, b, c, d) == Coalesce2(a, Coalesce3(b, c, d))

\* pl.concat_str with ignore_nulls=False: null as soon as one part is null.
RECURSIVE JoinParts(_)
JoinParts(parts) ==
    IF parts = <<>> THEN "" ELSE Head(parts) \o JoinParts(Tail(parts))

concat_str(parts) ==
    IF \E i \in 1..Len(parts) : parts[i] = NULL THEN NULL ELSE JoinParts(parts)

\* Kleene logic of polars expressions over nullable columns.
KEq(a, b) == IF a = NoCount THEN NULL ELSE IF a = b THEN "true" ELSE "false"
KNot(v) == IF v = NULL THEN NULL ELSE IF v = "true" THEN "false" ELSE "true"
\* DataFrame.filter keeps the rows whose predicate is true (null is dropped).
FilterKeeps(v) == v = "true"

\* A polars left join: every left row once per matching right row, in order;
\* a left row with no match once, with the right columns null.
LeftJoin(left, right, On(_, _), Merge(_, _), Miss(_)) ==
    LET RowsFor(l) ==
            LET hits == SelectSeq(right, LAMBDA r : On(l, r))
            IN  IF Len(hits) = 0 THEN <<Miss(l)>>
                ELSE [i \in 1..Len(hits) |-> Merge(l, hits[i])]
        F[i \in 0..Len(left)] ==
            IF i = 0 THEN <<>> ELSE F[i - 1] \o RowsFor(left[i])
    IN  F[Len(left)]

\* lf.slice(offset, chunk_size) of process_lazyframe_in_chunks.
Slice(s, off, n) == SubSeq(s, off + 1, Min(off + n, Len(s)))


\* ---------------------------------------------------------------- state
VARIABLES
    pc,                  \* position in UDIProcessor.process
    chunk_size,          \* the chunk_size argument of process
    udi_lf,              \* the registry relation
    secondary_cols,      \* TRUE iff the registry has identifiers_*_id columns
    maude_lf,            \* the event relation (with the columns added so far)
    mfr_mapping,         \* self.mfr_mapping
    udi_di_lookup,       \* self.udi_di_lookup
    mfr_lookup_full,     \* self.mfr_lookup_full
    mfr_lookup_partial,  \* self.mfr_lookup_partial
    primary_success,     \* build_udi_mapping's local primary_success
    primary_failed,      \* build_udi_mapping's local primary_failed
    secondary_mapping_all, \* build_udi_mapping's local secondary_mapping_all
    udi_mapping,         \* self.udi_mapping
    low_compliance_mfrs, \* _post_process_complex_cases' local list
    offset,              \* row offset of the chunk loop in progress
    files,               \* contents of the parquet files, by role
    exists,              \* the files that exist
    confirmed,           \* per file: the input rows whose chunks are confirmed written
    failures,            \* history: the offsets of the chunks whose write failed
    chunk_log,           \* history: <<file, offset>> of every chunk computed and written
    built                \* history: the attributes of self assigned so far

inputs == <<chunk_size, udi_lf, secondary_cols>>
lookups == <<udi_di_lookup, mfr_lookup_full, mfr_lookup_partial>>
mapping_locals == <<primary_success, primary_failed, secondary_mapping_all>>
history == <<failures, chunk_log>>
vars == <<pc, inputs, maude_lf, mfr_mapping, lookups, mapping_locals, udi_mapping,
          low_compliance_mfrs, offset, files, exists, confirmed, history, built>>

FileNames == {"temp_secondary", "temp", "resolved", "output"}

\* The state process() starts from, for a registry and an event relation
\* drawn from the given sets.
InitOver(registries, events) ==
    /\ pc = "start"
    /\ chunk_size \in ChunkSizes
    /\ secondary_cols \in BOOLEAN
    /\ udi_lf \in registries
    /\ (~secondary_cols) => \A i \in 1..Len(udi_lf) : udi_lf[i].secondary_list = NULL
    /\ maude_lf \in events
    /\ mfr_mapping = <<>>
    /\ udi_di_lookup = <<>>
    /\ mfr_lookup_full = <<>>
    /\ mfr_lookup_partial = <<>>
    /\ primary_success = <<>>
    /\ primary_failed = <<>>
    /\ secondary_mapping_all = <<>>
    /\ udi_mapping = <<>>
    /\ low_compliance_mfrs = {}
    /\ offset = 0
    /\ files = [f \in FileNames |-> <<>>]
    /\ exists = {}
    /\ confirmed = [f \in FileNames |-> 0]
    /\ failures = <<>>
    /\ chunk_log = <<>>
    /\ built = {}

Init == InitOver(SeqsUpTo(RegRows, MaxReg), SeqsUpTo(EventRows, MaxEv))

\* ---------------------------------------------------------------- stage 1
\* extract_di_from_public: the device identifier of an encoded field, null
\* when the field is null or cannot be parsed.
extract_di_from_public(udi_public) ==
    IF udi_public = "(01)S1" THEN "S1" ELSE NULL

\* preprocess_maude preferring the extracted identifier to the declared one.
preprocess_maude_ExtractedFirst(lf) ==
    MapSeq(lf, LAMBDA e :
        LET extracted_di == extract_di_from_public(e.udi_public)
        IN  e @@ [extracted_di |-> extracted_di,
                  udi_combined |-> Coalesce2(extracted_di, e.udi_di),
                  udi_source |-> IF e.udi_di # NULL THEN "original"
                                 ELSE IF extracted_di # NULL THEN "extracted"
                                 ELSE "missing"])

preprocess_maude(lf) ==
    MapSeq(lf, LAMBDA e :
        LET extracted_di == extract_di_from_public(e.udi_public)
        IN  e @@ [extracted_di |-> extracted_di,
                  udi_combined |-> Coalesce2(e.udi_di, extracted_di),
                  udi_source |-> IF e.udi_di # NULL THEN "original"
                                 ELSE IF extracted_di # NULL THEN "extracted"
                                 ELSE "missing"])

Preprocess ==
    /\ pc = "start"
    /\ maude_lf' = preprocess_maude(maude_lf)
    /\ pc' = "preprocessed"
    /\ UNCHANGED <<inputs, mfr_mapping, lookups, mapping_locals, udi_mapping,
                   low_compliance_mfrs, offset, files, exists, confirmed, history>>
    /\ UNCHANGED built

FUZZY_THRESHOLD == 90

\* The 0..100 similarity of two manufacturer names.
Similarity(a, b) == IF a = b THEN 100 ELSE 0

collect_unique_safe(lf) == {lf[i].manufacturer : i \in 1..Len(lf)} \ {NULL}

fuzzy_match_dict(maude_mfrs, udi_mfrs) ==
    [m \in maude_mfrs |->
        IF \E c \in udi_mfrs : Similarity(m, c) >= FUZZY_THRESHOLD
        THEN CHOOSE c \in udi_mfrs :
                /\ Similarity(m, c) >= FUZZY_THRESHOLD
                /\ \A d \in udi_mfrs : Similarity(m, d) <= Similarity(m, c)
        ELSE m]

\* pl.col('manufacturer').replace(self.mfr_mapping)
apply_normalization(lf, mapping) ==
    MapSeq(lf, LAMBDA e :
        e @@ [mfr_std |-> IF e.manufacturer \in DOMAIN mapping
                          THEN mapping[e.manufacturer] ELSE e.manufacturer])

NormalizeManufacturers ==
    /\ pc = "preprocessed"
    /\ mfr_mapping' = fuzzy_match_dict(collect_unique_safe(maude_lf),
                                       collect_unique_safe(udi_lf))
    /\ built' = built \cup {"mfr_mapping"}
    /\ pc' = "mapping_built"
    /\ UNCHANGED <<inputs, maude_lf, lookups, mapping_locals, udi_mapping,
                   low_compliance_mfrs, offset, files, exists, confirmed, history>>

ApplyNormalization ==
    /\ pc = "mapping_built"
    /\ maude_lf' = apply_normalization(maude_lf, mfr_mapping)
    /\ pc' = "normalized"
    /\ UNCHANGED <<inputs, mfr_mapping, lookups, mapping_locals, udi_mapping,
                   low_compliance_mfrs, offset, files, exists, confirmed, history,
                   built>>

\* ---------------------------------------------------------------- stage 2
\* unique(subset=['udi_di']) keeps one row per identifier and does not say
\* which (keep='any'): keep[u] is the index of the row kept for u.
PrimaryIndexFor(lf, keep) ==
    LET ids == Distinct(MapSeq(lf, LAMBDA r : r.udi_di))
    IN  MapSeq(ids, LAMBDA u :
            [udi_di |-> u, manufacturer |-> lf[keep[u]].manufacturer,
             brand |-> lf[keep[u]].brand,
             model_number |-> lf[keep[u]].model_number,
             catalog_number |-> lf[keep[u]].catalog_number])

KeepChoices(lf) ==
    LET ids == {lf[i].udi_di : i \in 1..Len(lf)}
    IN  {k \in [ids -> 1..Len(lf)] : \A u \in ids : lf[k[u]].udi_di = u}

FullKey(r) == <<r.manufacturer, r.brand, r.catalog_number>>
PartialKey(r) == <<r.manufacturer, r.brand>>

\* The rows of lf whose key is k, in registry order.
Group(lf, Key(_), k) == SelectSeq(lf, LAMBDA r : Key(r) = k)

\* pl.col('udi_di').len() of a group.
GroupCount(g) == Len(g)

build_lookup_full(lf) ==
    MapSeq(Distinct(MapSeq(lf, FullKey)), LAMBDA k :
        LET g == Group(lf, FullKey, k)
        IN  [manufacturer |-> k[1], brand |-> k[2], catalog_number |-> k[3],
             n_versions_full |-> GroupCount(g),
             udi_list_full |-> MapSeq(g, LAMBDA r : r.udi_di),
             model_list_full |-> MapSeq(g, LAMBDA r : r.model_number)])

\* build_lookup_partial counting the distinct catalog numbers of the group.
build_lookup_partial_CountsCatalogs(lf) ==
    MapSeq(Distinct(MapSeq(lf, PartialKey)), LAMBDA k :
        LET g == Group(lf, PartialKey, k)
        IN  [manufacturer |-> k[1], brand |-> k[2],
             n_versions_partial |->
                Cardinality(Range(MapSeq(g, LAMBDA r : r.catalog_number))),
             udi_list_partial |-> MapSeq(g, LAMBDA r : r.udi_di),
             catalog_list_partial |-> MapSeq(g, LAMBDA r : r.catalog_number),
             model_list_partial |-> MapSeq(g, LAMBDA r : r.model_number)])

build_lookup_partial(lf) ==
    MapSeq(Distinct(MapSeq(lf, PartialKey)), LAMBDA k :
        LET g == Group(lf, PartialKey, k)
        IN  [manufacturer |-> k[1], brand |-> k[2],
             n_versions_partial |-> GroupCount(g),
             udi_list_partial |-> MapSeq(g, LAMBDA r : r.udi_di),
             catalog_list_partial |-> MapSeq(g, LAMBDA r : r.catalog_number),
             model_list_partial |-> MapSeq(g, LAMBDA r : r.model_number)])

\* BuildLookup keeping the primary index in a local instead of on self.
BuildLookup_LocalIndex ==
    /\ pc = "normalized"
    /\ \E keep \in KeepChoices(udi_lf) :
            udi_di_lookup' = PrimaryIndexFor(udi_lf, keep)
    /\ mfr_lookup_full' = build_lookup_full(udi_lf)
    /\ mfr_lookup_partial' = build_lookup_partial(udi_lf)
    /\ pc' = "lookup_built"
    /\ UNCHANGED <<inputs, maude_lf, mfr_mapping, mapping_locals, udi_mapping,
                   low_compliance_mfrs, offset, files, exists, confirmed, history>>
    /\ built' = built \cup {"mfr_lookup_full", "mfr_lookup_partial"}

BuildLookup ==
    /\ pc = "normalized"
    /\ \E keep \in KeepChoices(udi_lf) :
            udi_di_lookup' = PrimaryIndexFor(udi_lf, keep)
    /\ mfr_lookup_full' = build_lookup_full(udi_lf)
    /\ mfr_lookup_partial' = build_lookup_partial(udi_lf)
    /\ pc' = "lookup_built"
    /\ UNCHANGED <<inputs, maude_lf, mfr_mapping, mapping_locals, udi_mapping,
                   low_compliance_mfrs, offset, files, exists, confirmed, history>>
    /\ built' = built \cup {"udi_di_lookup", "mfr_lookup_full", "mfr_lookup_partial"}

\* ---------------------------------------------------------------- stage 3
\* process_lazyframe_in_chunks opens its output, then for every slice of
\* chunk_size rows, in order, appends transform_func(slice) to it and confirms
\* the chunk.  An output that exists already is kept and the loop resumes
\* after the last confirmed chunk.
OpenOutput(fs, ex, name) == IF name \in ex THEN fs ELSE [fs EXCEPT ![name] = <<>>]

ResumeOffset(conf, ex, name) == IF name \in ex THEN conf[name] ELSE 0

\* A write that stores the first row of the chunk only.
AppendChunk_Partial(fs, name, rows) ==
    [fs EXCEPT ![name] = @ \o (IF Len(rows) = 0 THEN <<>> ELSE <<rows[1]>>)]

AppendChunk(fs, name, rows) == [fs EXCEPT ![name] = @ \o rows]

\* The manifest after the chunk at off is confirmed / after name is unlinked.
Confirm(conf, name, off, n) == [conf EXCEPT ![name] = off + n]
Unlink(conf, name) == [conf EXCEPT ![name] = 0]

\* unique_udi without its .unique(): one entry per event row.
unique_udi_NoUnique(lf) ==
    SelectSeq(MapSeq(lf, LAMBDA e : e.udi_combined), LAMBDA u : u # NULL)

\* build_udi_mapping, step 1: the distinct non-null combined identifiers.
unique_udi(lf) ==
    SelectSeq(Distinct(MapSeq(lf, LAMBDA e : e.udi_combined)), LAMBDA u : u # NULL)

\* step 2: left join against the primary index, then primary_matched.
primary_matched(row) == IF row.manufacturer # NULL THEN "true" ELSE "false"

udi_with_primary(uniq, lookup) ==
    MapSeq(
        LeftJoin(MapSeq(uniq, LAMBDA u : [udi_combined |-> u]), lookup,
                 LAMBDA l, r : l.udi_combined = r.udi_di,
                 LAMBDA l, r : [udi_combined |-> l.udi_combined,
                                manufacturer |-> r.manufacturer,
                                brand |-> r.brand,
                                model_number |-> r.model_number,
                                catalog_number |-> r.catalog_number],
                 LAMBDA l : [udi_combined |-> l.udi_combined,
                             manufacturer |-> NULL, brand |-> NULL,
                             model_number |-> NULL, catalog_number |-> NULL]),
        LAMBDA row : row @@ [primary_matched |-> primary_matched(row)])

PrimarySuccess(joined) ==
    SelectSeq(joined, LAMBDA row : FilterKeeps(row.primary_matched))
PrimaryFailed(joined) ==
    SelectSeq(joined, LAMBDA row : FilterKeeps(KNot(row.primary_matched)))

\* step 3, per registry chunk: explode, drop nulls, keep the identifiers that
\* failed the primary pass, aggregate per secondary identifier.
n_unique(s) == Cardinality(Range(s))

build_secondary_mapping_chunk(chunk, failed_udi_list) ==
    LET exploded == SelectSeq(chunk, LAMBDA r : r.secondary_list # NULL)
        matched == SelectSeq(exploded, LAMBDA r : r.secondary_list \in failed_udi_list)
    IN  MapSeq(Distinct(MapSeq(matched, LAMBDA r : r.secondary_list)), LAMBDA s :
            LET g == SelectSeq(matched, LAMBDA r : r.secondary_list = s)
            IN  [secondary_list |-> s,
                 n_primary |-> n_unique(MapSeq(g, LAMBDA r : r.udi_di)),
                 primary_udi |-> g[1].udi_di,
                 manufacturer |-> g[1].manufacturer,
                 brand |-> g[1].brand,
                 model_number |-> g[1].model_number,
                 catalog_number |-> g[1].catalog_number])

RECURSIVE SumSeq(_)
SumSeq(s) == IF s = <<>> THEN 0 ELSE Head(s) + SumSeq(Tail(s))

\* MergeCount taking the first chunk's count, like the other merged columns.
MergeCount_First(g) == g[1].n_primary

\* The count of a secondary identifier merged over the per-chunk aggregates.
MergeCount(g) == SumSeq(MapSeq(g, LAMBDA r : r.n_primary))

\* The merge of the per-chunk aggregates read back from the temporary file.
merge_secondary(partials) ==
    MapSeq(Distinct(MapSeq(partials, LAMBDA r : r.secondary_list)), LAMBDA s :
        LET g == SelectSeq(partials, LAMBDA r : r.secondary_list = s)
        IN  [secondary_list |-> s,
             n_primary |-> MergeCount(g),
             primary_udi |-> g[1].primary_udi,
             manufacturer |-> g[1].manufacturer,
             brand |-> g[1].brand,
             model_number |-> g[1].model_number,
             catalog_number |-> g[1].catalog_number])

\* primary_failed left-joined with the merged aggregate.  The right side's
\* manufacturer, brand, model_number and catalog_number collide with the left
\* side's columns and are renamed *_right; the unsuffixed names stay the left's.
secondary_join(failed, merged) ==
    MapSeq(
        LeftJoin(failed, merged,
                 LAMBDA l, r : l.udi_combined = r.secondary_list,
                 LAMBDA l, r : l @@ [n_primary |-> r.n_primary,
                                     primary_udi |-> r.primary_udi,
                                     manufacturer_right |-> r.manufacturer,
                                     brand_right |-> r.brand,
                                     model_number_right |-> r.model_number,
                                     catalog_number_right |-> r.catalog_number],
                 LAMBDA l : l @@ [n_primary |-> NoCount, primary_udi |-> NULL,
                                  manufacturer_right |-> NULL, brand_right |-> NULL,
                                  model_number_right |-> NULL,
                                  catalog_number_right |-> NULL]),
        LAMBDA row : row @@ [secondary_matched |-> KEq(row.n_primary, 1)])

\* secondary_skip with a null literal as secondary_matched.
secondary_skip_NullFlag(failed) ==
    MapSeq(failed, LAMBDA l :
        [udi_combined |-> l.udi_combined, primary_matched |-> l.primary_matched,
         secondary_matched |-> NULL, primary_udi |-> NULL,
         manufacturer |-> NULL, brand |-> NULL,
         model_number |-> NULL, catalog_number |-> NULL])

\* The else branch: no secondary columns, or nothing failed the primary pass.
secondary_skip(failed) ==
    MapSeq(failed, LAMBDA l :
        [udi_combined |-> l.udi_combined, primary_matched |-> l.primary_matched,
         secondary_matched |-> "false", primary_udi |-> NULL,
         manufacturer |-> NULL, brand |-> NULL,
         model_number |-> NULL, catalog_number |-> NULL])

\* step 4: the three parts of the mapping table.
primary_mapping(success) ==
    MapSeq(success, LAMBDA r :
        [udi_combined |-> r.udi_combined,
         mapped_primary_udi |-> r.udi_combined,
         mapped_manufacturer |-> r.manufacturer,
         mapped_brand |-> r.brand,
         mapped_model_number |-> r.model_number,
         mapped_catalog_number |-> r.catalog_number,
         udi_match_type |-> "udi_direct"])

secondary_success_mapping(sec_matched) ==
    MapSeq(SelectSeq(sec_matched, LAMBDA r : FilterKeeps(r.secondary_matched)),
        LAMBDA r :
        [udi_combined |-> r.udi_combined,
         mapped_primary_udi |-> r.primary_udi,
         mapped_manufacturer |-> r.manufacturer,
         mapped_brand |-> r.brand,
         mapped_model_number |-> r.model_number,
         mapped_catalog_number |-> r.catalog_number,
         udi_match_type |-> "udi_secondary"])

secondary_failed_mapping(sec_matched) ==
    MapSeq(SelectSeq(sec_matched, LAMBDA r : FilterKeeps(KNot(r.secondary_matched))),
        LAMBDA r :
        [udi_combined |-> r.udi_combined,
         mapped_primary_udi |-> r.udi_combined,
         mapped_manufacturer |-> NULL,
         mapped_brand |-> NULL,
         mapped_model_number |-> NULL,
         mapped_catalog_number |-> NULL,
         udi_match_type |-> "udi_no_match"])

concat_mapping(success, sec_matched) ==
    primary_mapping(success) \o secondary_success_mapping(sec_matched)
        \o secondary_failed_mapping(sec_matched)

\* build_udi_mapping up to the branch on secondary_cols; the else branch
\* finishes the table at once, the then branch starts the registry scan.
BuildMappingStart ==
    /\ pc = "lookup_built"
    /\ LET joined == udi_with_primary(unique_udi(maude_lf), udi_di_lookup)
       IN  /\ primary_success' = PrimarySuccess(joined)
           /\ primary_failed' = PrimaryFailed(joined)
    /\ IF secondary_cols /\ Len(primary_failed') > 0
       THEN /\ pc' = "secondary_scan"
            /\ files' = OpenOutput(files, exists, "temp_secondary")
            /\ offset' = ResumeOffset(confirmed, exists, "temp_secondary")
            /\ exists' = exists \cup {"temp_secondary"}
            /\ UNCHANGED <<udi_mapping, built>>
       ELSE /\ pc' = "process_all"
            /\ udi_mapping' = concat_mapping(primary_success',
                                             secondary_skip(primary_failed'))
            /\ files' = OpenOutput(files, exists, "temp")
            /\ offset' = ResumeOffset(confirmed, exists, "temp")
            /\ exists' = exists \cup {"temp"}
            /\ built' = built \cup {"udi_mapping"}
    /\ UNCHANGED <<inputs, maude_lf, mfr_mapping, lookups, secondary_mapping_all,
                   low_compliance_mfrs, confirmed, history>>

SecondaryChunk ==
    /\ pc = "secondary_scan"
    /\ offset < Len(udi_lf)
    /\ files' = AppendChunk(files, "temp_secondary",
            build_secondary_mapping_chunk(
                Slice(udi_lf, offset, chunk_size),
                {primary_failed[i].udi_combined : i \in 1..Len(primary_failed)}))
    /\ confirmed' = Confirm(confirmed, "temp_secondary", offset, chunk_size)
    /\ chunk_log' = Append(chunk_log, <<"temp_secondary", offset>>)
    /\ offset' = offset + chunk_size
    /\ UNCHANGED <<pc, inputs, maude_lf, mfr_mapping, lookups, mapping_locals,
                   udi_mapping, low_compliance_mfrs, exists, failures>>
    /\ UNCHANGED built

SecondaryFinish ==
    /\ pc = "secondary_scan"
    /\ offset >= Len(udi_lf)
    /\ secondary_mapping_all' = merge_secondary(files["temp_secondary"])
    /\ udi_mapping' = concat_mapping(primary_success,
                            secondary_join(primary_failed, secondary_mapping_all'))
    /\ files' = OpenOutput([files EXCEPT !["temp_secondary"] = <<>>], exists, "temp")
    /\ confirmed' = Unlink(confirmed, "temp_secondary")
    /\ exists' = (exists \ {"temp_secondary"}) \cup {"temp"}
    /\ pc' = "process_all"
    /\ offset' = ResumeOffset(confirmed, exists, "temp")
    /\ UNCHANGED <<inputs, maude_lf, mfr_mapping, lookups, primary_success,
                   primary_failed, low_compliance_mfrs, history>>
    /\ built' = built \cup {"udi_mapping"}

\* ---------------------------------------------------------------- stage 4
\* process_all.transform_chunk
NoList == <<>>
\* .list.first(): null on a null list.
ListFirst(l) == IF Len(l) = 0 THEN NULL ELSE l[1]

EventCols == {"udi_di", "udi_public", "manufacturer", "brand", "catalog_number",
              "extracted_di", "udi_combined", "udi_source", "mfr_std"}

\* Step 1: left join on udi_combined (a null key matches nothing).
join_udi_mapping(chunk, mapping) ==
    LeftJoin(chunk, mapping,
             LAMBDA l, r : l.udi_combined # NULL /\ l.udi_combined = r.udi_combined,
             LAMBDA l, r : l @@ r,
             LAMBDA l : l @@ [mapped_primary_udi |-> NULL,
                              mapped_manufacturer |-> NULL,
                              mapped_brand |-> NULL,
                              mapped_model_number |-> NULL,
                              mapped_catalog_number |-> NULL,
                              udi_match_type |-> NULL])

\* Step 2: left join on (mfr_std, brand, catalog_number).
join_full(matched, lookup) ==
    LeftJoin(matched, lookup,
             LAMBDA l, r : /\ l.mfr_std # NULL /\ l.mfr_std = r.manufacturer
                           /\ l.brand # NULL /\ l.brand = r.brand
                           /\ l.catalog_number # NULL
                           /\ l.catalog_number = r.catalog_number,
             LAMBDA l, r : l @@ [n_versions_full |-> r.n_versions_full,
                                 udi_list_full |-> r.udi_list_full,
                                 model_list_full |-> r.model_list_full],
             LAMBDA l : l @@ [n_versions_full |-> NoCount,
                              udi_list_full |-> NoList,
                              model_list_full |-> NoList])

\* Step 3: left join on (mfr_std, brand).
join_partial(matched, lookup) ==
    LeftJoin(matched, lookup,
             LAMBDA l, r : /\ l.mfr_std # NULL /\ l.mfr_std = r.manufacturer
                           /\ l.brand # NULL /\ l.brand = r.brand,
             LAMBDA l, r : l @@ [n_versions_partial |-> r.n_versions_partial,
                                 udi_list_partial |-> r.udi_list_partial,
                                 catalog_list_partial |-> r.catalog_list_partial,
                                 model_list_partial |-> r.model_list_partial],
             LAMBDA l : l @@ [n_versions_partial |-> NoCount,
                              udi_list_partial |-> NoList,
                              catalog_list_partial |-> NoList,
                              model_list_partial |-> NoList])

\* matched_udi_full taking the first candidate of any matched key.
matched_udi_full_AnyCount(m) ==
    IF m.n_versions_full >= 1 THEN ListFirst(m.udi_list_full) ELSE NULL

\* Step 4: a composite key yields a value only when its count is 1.
matched_udi_full(m) ==
    IF m.n_versions_full = 1 THEN ListFirst(m.udi_list_full) ELSE NULL
matched_model_full(m) ==
    IF m.n_versions_full = 1 THEN ListFirst(m.model_list_full) ELSE NULL
matched_udi_partial(m) ==
    IF m.n_versions_partial = 1 THEN ListFirst(m.udi_list_partial) ELSE NULL
matched_catalog_partial(m) ==
    IF m.n_versions_partial = 1 THEN ListFirst(m.catalog_list_partial) ELSE NULL
matched_model_partial(m) ==
    IF m.n_versions_partial = 1 THEN ListFirst(m.model_list_partial) ELSE NULL

\* Step 5: the derived columns.
device_version_id(m) ==
    Coalesce4(m.mapped_primary_udi, matched_udi_full(m), matched_udi_partial(m),
              m.udi_combined)

match_source(m) ==
    IF m.udi_match_type = "udi_direct" THEN "udi_direct"
    ELSE IF m.udi_match_type = "udi_secondary" THEN "udi_secondary"
    ELSE IF matched_udi_full(m) # NULL THEN "mfr_full_single"
    ELSE IF matched_udi_partial(m) # NULL THEN "mfr_partial_single"
    ELSE IF m.n_versions_full > 1 THEN "mfr_full_multiple"
    ELSE IF m.n_versions_partial > 1 THEN "mfr_partial_multiple"
    ELSE IF m.udi_match_type = "udi_no_match" THEN "udi_no_match"
    ELSE "no_match"

transform_row(m) ==
    [c \in EventCols |-> m[c]] @@
    [device_version_id |-> device_version_id(m),
     manufacturer_final |-> Coalesce2(m.mapped_manufacturer, m.manufacturer),
     brand_final |-> Coalesce2(m.mapped_brand, m.brand),
     model_number_final |-> Coalesce3(m.mapped_model_number, matched_model_full(m),
                                      matched_model_partial(m)),
     catalog_number_final |-> Coalesce3(m.mapped_catalog_number, m.catalog_number,
                                        matched_catalog_partial(m)),
     match_source |-> match_source(m)]

\* The three joins of a chunk, before the derived columns.
joined_chunk(chunk, mapping, full, partial) ==
    join_partial(join_full(join_udi_mapping(chunk, mapping), full), partial)

\* transform_chunk carrying the last resolved identifier of the chunk forward
\* into the rows the chunk could not resolve.
transform_chunk_FillForward(chunk, mapping, full, partial) ==
    LET rows == MapSeq(joined_chunk(chunk, mapping, full, partial), transform_row)
        F[i \in 0..Len(rows)] ==
            IF i = 0 THEN <<>>
            ELSE Append(F[i - 1],
                    IF rows[i].device_version_id = NULL /\ i > 1
                    THEN [rows[i] EXCEPT !.device_version_id =
                                            F[i - 1][i - 1].device_version_id]
                    ELSE rows[i])
    IN  F[Len(rows)]

transform_chunk(chunk, mapping, full, partial) ==
    MapSeq(joined_chunk(chunk, mapping, full, partial), transform_row)

\* ProcessAllChunk dropping from the shared mapping table the entries the
\* chunk has used.
ProcessAllChunk_ConsumesMapping ==
    /\ pc = "process_all"
    /\ offset < Len(maude_lf)
    /\ files' = AppendChunk(files, "temp",
            transform_chunk(Slice(maude_lf, offset, chunk_size), udi_mapping,
                            mfr_lookup_full, mfr_lookup_partial))
    /\ udi_mapping' = SelectSeq(udi_mapping, LAMBDA e :
            \A i \in 1..Len(Slice(maude_lf, offset, chunk_size)) :
                Slice(maude_lf, offset, chunk_size)[i].udi_combined # e.udi_combined)
    /\ confirmed' = Confirm(confirmed, "temp", offset, chunk_size)
    /\ chunk_log' = Append(chunk_log, <<"temp", offset>>)
    /\ offset' = offset + chunk_size
    /\ UNCHANGED <<pc, inputs, maude_lf, mfr_mapping, lookups, mapping_locals,
                   low_compliance_mfrs, exists, failures>>
    /\ UNCHANGED built

ProcessAllChunk ==
    /\ pc = "process_all"
    /\ offset < Len(maude_lf)
    /\ files' = AppendChunk(files, "temp",
            transform_chunk(Slice(maude_lf, offset, chunk_size), udi_mapping,
                            mfr_lookup_full, mfr_lookup_partial))
    /\ confirmed' = Confirm(confirmed, "temp", offset, chunk_size)
    /\ chunk_log' = Append(chunk_log, <<"temp", offset>>)
    /\ offset' = offset + chunk_size
    /\ UNCHANGED <<pc, inputs, maude_lf, mfr_mapping, lookups, mapping_locals,
                   udi_mapping, low_compliance_mfrs, exists, failures>>
    /\ UNCHANGED built

\* A durable-storage write failure while the chunk at offset is in flight: the
\* chunk is not written and the exception ends process().
WriteFailure ==
    /\ pc = "process_all"
    /\ offset < Len(maude_lf)
    /\ Len(failures) < MaxFailures
    /\ failures' = Append(failures, offset)
    /\ pc' = "failed"
    /\ UNCHANGED <<inputs, maude_lf, mfr_mapping, lookups, mapping_locals,
                   udi_mapping, low_compliance_mfrs, offset, files, exists,
                   confirmed, chunk_log>>
    /\ UNCHANGED built

\* The event relation as process() receives it.
RawEvents(lf) ==
    MapSeq(lf, LAMBDA e :
        [udi_di |-> e.udi_di, udi_public |-> e.udi_public,
         manufacturer |-> e.manufacturer, brand |-> e.brand,
         catalog_number |-> e.catalog_number])

\* process() called again on the same inputs, in a new UDIProcessor; the
\* files are what the failed run left.
Rerun ==
    /\ pc = "failed"
    /\ pc' = "start"
    /\ maude_lf' = RawEvents(maude_lf)
    /\ mfr_mapping' = <<>>
    /\ udi_di_lookup' = <<>>
    /\ mfr_lookup_full' = <<>>
    /\ mfr_lookup_partial' = <<>>
    /\ primary_success' = <<>>
    /\ primary_failed' = <<>>
    /\ secondary_mapping_all' = <<>>
    /\ udi_mapping' = <<>>
    /\ low_compliance_mfrs' = {}
    /\ offset' = 0
    /\ UNCHANGED <<inputs, files, exists, confirmed, history>>
    /\ built' = {}

\* ---------------------------------------------------------------- stage 5
\* _post_process_complex_cases
LOW_COMPLIANCE_THRESHOLD == 50   \* in hundredths: 0.50

\* LowCompliance counting the rows whose device_version_id is null.
LowCompliance_Unresolved(rows) ==
    {mfr \in {rows[i].mfr_std : i \in 1..Len(rows)} :
        LET g == SelectSeq(rows, LAMBDA r : r.mfr_std = mfr)
            missing == Len(SelectSeq(g, LAMBDA r : r.device_version_id = NULL))
        IN  missing * 100 > LOW_COMPLIANCE_THRESHOLD * Len(g)}

\* missing_rate > LOW_COMPLIANCE_THRESHOLD, per mfr_std group of the input.
LowCompliance(rows) ==
    {mfr \in {rows[i].mfr_std : i \in 1..Len(rows)} :
        LET g == SelectSeq(rows, LAMBDA r : r.mfr_std = mfr)
            missing == Len(SelectSeq(g, LAMBDA r : r.udi_combined = NULL))
        IN  missing * 100 > LOW_COMPLIANCE_THRESHOLD * Len(g)}

RewriteSet == {"mfr_full_multiple", "mfr_partial_multiple", "no_match"}

\* .str.contains over the values match_source takes.
ContainsSingle(ms) == ms \in {"mfr_full_single", "mfr_partial_single"}
ContainsMultiple(ms) == ms \in {"mfr_full_multiple", "mfr_partial_multiple"}

\* tier3_id without the branch that keeps the record's own identifier.
tier3_id_AlwaysSynthesized(r, low) ==
    IF r.mfr_std # NULL /\ r.mfr_std \in low
    THEN concat_str(<<"LOW_", r.mfr_std, "_", r.brand_final>>)
    ELSE concat_str(<<"UNK_", r.mfr_std, "_", r.brand_final, "_",
                      r.catalog_number_final>>)

tier3_id(r, low) ==
    IF r.udi_combined # NULL THEN r.udi_combined
    ELSE IF r.mfr_std # NULL /\ r.mfr_std \in low
         THEN concat_str(<<"LOW_", r.mfr_std, "_", r.brand_final>>)
    ELSE concat_str(<<"UNK_", r.mfr_std, "_", r.brand_final, "_",
                      r.catalog_number_final>>)

\* resolved_id without the test on match_source.
resolved_id_EveryRow(r, low) == tier3_id(r, low)

resolved_id(r, low) ==
    IF r.match_source \in RewriteSet THEN tier3_id(r, low) ELSE r.device_version_id

\* The grades written in the reverse order.
udi_confidence_Reversed(r) ==
    IF r.match_source = "udi_direct" THEN "VERY_LOW"
    ELSE IF ContainsSingle(r.match_source) THEN "LOW"
    ELSE IF ContainsMultiple(r.match_source) THEN "MEDIUM"
    ELSE IF r.udi_combined # NULL THEN "LOW"
    ELSE "HIGH"

udi_confidence(r) ==
    IF r.match_source = "udi_direct" THEN "HIGH"
    ELSE IF ContainsSingle(r.match_source) THEN "MEDIUM"
    ELSE IF ContainsMultiple(r.match_source) THEN "LOW"
    ELSE IF r.udi_combined # NULL THEN "MEDIUM"
    ELSE "VERY_LOW"

resolve_row(r, low) ==
    [r EXCEPT !.device_version_id = resolved_id(r, low)] @@
    [udi_confidence |-> udi_confidence(r), final_source |-> r.match_source]

resolve_chunk(chunk, low) == MapSeq(chunk, LAMBDA r : resolve_row(r, low))

\* PostProcessStart as soon as ChunkResolver has written one chunk.
PostProcessStart_AfterFirstChunk ==
    /\ pc = "process_all"
    /\ offset > 0
    /\ low_compliance_mfrs' = LowCompliance(files["temp"])
    /\ files' = OpenOutput(files, exists, "resolved")
    /\ exists' = exists \cup {"resolved"}
    /\ pc' = "post_process"
    /\ offset' = ResumeOffset(confirmed, exists, "resolved")
    /\ UNCHANGED <<inputs, maude_lf, mfr_mapping, lookups, mapping_locals,
                   udi_mapping, confirmed, history>>
    /\ UNCHANGED built

\* The end of process_all's loop, then pass 1 of _post_process_complex_cases.
PostProcessStart ==
    /\ pc = "process_all"
    /\ offset >= Len(maude_lf)
    /\ low_compliance_mfrs' = LowCompliance(files["temp"])
    /\ files' = OpenOutput(files, exists, "resolved")
    /\ exists' = exists \cup {"resolved"}
    /\ pc' = "post_process"
    /\ offset' = ResumeOffset(confirmed, exists, "resolved")
    /\ UNCHANGED <<inputs, maude_lf, mfr_mapping, lookups, mapping_locals,
                   udi_mapping, confirmed, history>>
    /\ UNCHANGED built

ResolveChunk ==
    /\ pc = "post_process"
    /\ offset < Len(files["temp"])
    /\ files' = AppendChunk(files, "resolved",
            resolve_chunk(Slice(files["temp"], offset, chunk_size),
                          low_compliance_mfrs))
    /\ confirmed' = Confirm(confirmed, "resolved", offset, chunk_size)
    /\ chunk_log' = Append(chunk_log, <<"resolved", offset>>)
    /\ offset' = offset + chunk_size
    /\ UNCHANGED <<pc, inputs, maude_lf, mfr_mapping, lookups, mapping_locals,
                   udi_mapping, low_compliance_mfrs, exists, failures>>
    /\ UNCHANGED built

\* Finish without the removal of the ChunkResolver file.
Finish_KeepsTemp ==
    /\ pc = "post_process"
    /\ offset >= Len(files["temp"])
    /\ files' = [files EXCEPT !["output"] = files["resolved"],
                              !["resolved"] = <<>>, !["temp"] = <<>>]
    /\ exists' = (exists \ {"resolved"}) \cup {"output"}
    /\ confirmed' = Unlink(Unlink(confirmed, "resolved"), "temp")
    /\ pc' = "done"
    /\ UNCHANGED <<inputs, maude_lf, mfr_mapping, lookups, mapping_locals,
                   udi_mapping, low_compliance_mfrs, offset, history>>
    /\ UNCHANGED built

\* process, step 8: final_path.rename(output_path); temp_path.unlink().
Finish ==
    /\ pc = "post_process"
    /\ offset >= Len(files["temp"])
    /\ files' = [files EXCEPT !["output"] = files["resolved"],
                              !["resolved"] = <<>>, !["temp"] = <<>>]
    /\ exists' = (exists \ {"resolved", "temp"}) \cup {"output"}
    /\ confirmed' = Unlink(Unlink(confirmed, "resolved"), "temp")
    /\ pc' = "done"
    /\ UNCHANGED <<inputs, maude_lf, mfr_mapping, lookups, mapping_locals,
                   udi_mapping, low_compliance_mfrs, offset, history>>
    /\ UNCHANGED built

Next ==
    \/ Preprocess
    \/ NormalizeManufacturers
    \/ ApplyNormalization
    \/ BuildLookup
    \/ BuildMappingStart
    \/ SecondaryChunk
    \/ SecondaryFinish
    \/ ProcessAllChunk
    \/ PostProcessStart
    \/ ResolveChunk
    \/ Finish

Spec == Init /\ [][Next]_vars

\* The pipeline with write failures in ChunkResolver and re-runs, over
\* registries of one row.
InitFailures == Init /\ Len(udi_lf) = 1
NextFailures == Next \/ WriteFailure \/ Rerun
SpecFailures == InitFailures /\ [][NextFailures]_vars

\* One run over event relations with encoded fields and registries of one row.
InitEncoded == InitOver(SeqsUpTo(RegRows, 1), SeqsUpTo(EncodedEventRows, MaxEv))
SpecEncoded == InitEncoded /\ [][Next]_vars

\* ================================================================ claims
\* The rows written so far by ChunkResolver / by FallbackResolver.
ChunkResolverRows == files["temp"]
FallbackRows == IF pc = "done" THEN files["output"] ELSE files["resolved"]

MappingBuilt == pc \in {"process_all", "post_process", "done"}

\* The distinct non-null combined identifiers of the event stream.
EventIdentifiers == {maude_lf[i].udi_combined : i \in 1..Len(maude_lf)} \ {NULL}

\* The mapping-table entries of identifier u.
EntriesOf(u) == {i \in 1..Len(udi_mapping) : udi_mapping[i].udi_combined = u}
TypesOf(u) == {udi_mapping[i].udi_match_type : i \in EntriesOf(u)}

\* The stored count of the full / partial composite key of event row r (0: no key).
FullHits(r) ==
    {i \in 1..Len(mfr_lookup_full) :
        /\ r.mfr_std # NULL /\ r.brand # NULL /\ r.catalog_number # NULL
        /\ mfr_lookup_full[i].manufacturer = r.mfr_std
        /\ mfr_lookup_full[i].brand = r.brand
        /\ mfr_lookup_full[i].catalog_number = r.catalog_number}
PartialHits(r) ==
    {i \in 1..Len(mfr_lookup_partial) :
        /\ r.mfr_std # NULL /\ r.brand # NULL
        /\ mfr_lookup_partial[i].manufacturer = r.mfr_std
        /\ mfr_lookup_partial[i].brand = r.brand}
FullCountOf(r) ==
    IF FullHits(r) = {} THEN 0
    ELSE mfr_lookup_full[CHOOSE i \in FullHits(r) : TRUE].n_versions_full
PartialCountOf(r) ==
    IF PartialHits(r) = {} THEN 0
    ELSE mfr_lookup_partial[CHOOSE i \in PartialHits(r) : TRUE].n_versions_partial

\* The registry identifiers registered under r's full / partial key.
FullCandidates(r) ==
    {udi_lf[i].udi_di : i \in {j \in 1..Len(udi_lf) :
        /\ r.mfr_std # NULL /\ r.catalog_number # NULL
        /\ udi_lf[j].manufacturer = r.mfr_std /\ udi_lf[j].brand = r.brand
        /\ udi_lf[j].catalog_number = r.catalog_number}}
PartialCandidates(r) ==
    {udi_lf[i].udi_di : i \in {j \in 1..Len(udi_lf) :
        /\ r.mfr_std # NULL
        /\ udi_lf[j].manufacturer = r.mfr_std /\ udi_lf[j].brand = r.brand}}

\* The primary identifiers of the registry rows that list s as a secondary id.
PrimariesBehind(s) ==
    {udi_lf[i].udi_di : i \in {j \in 1..Len(udi_lf) : udi_lf[j].secondary_list = s}}

\* C1: after FallbackResolver every output row has a non-null
\* device_version_id and a non-null confidence grade.
C1_TerminalNonNull ==
    \A i \in 1..Len(FallbackRows) :
        /\ FallbackRows[i].device_version_id # NULL
        /\ FallbackRows[i].udi_confidence # NULL

\* The match_source the priority list of C2 gives row r.
ClaimedSource(r) ==
    IF "udi_direct" \in TypesOf(r.udi_combined) THEN "udi_direct"
    ELSE IF "udi_secondary" \in TypesOf(r.udi_combined) THEN "udi_secondary"
    ELSE IF FullCountOf(r) = 1 THEN "mfr_full_single"
    ELSE IF PartialCountOf(r) = 1 THEN "mfr_partial_single"
    ELSE IF FullCountOf(r) > 1 THEN "mfr_full_multiple"
    ELSE IF PartialCountOf(r) > 1 THEN "mfr_partial_multiple"
    ELSE IF r.udi_combined # NULL THEN "udi_no_match"
    ELSE "no_match"

\* C2: ChunkResolver gives every record the first match_source of the
\* priority list direct, secondary, full single, partial single, full
\* multiple, partial multiple, udi_no_match (a non-null identifier that failed
\* all lookups), no_match.
C2_MatchSourcePriority ==
    \A i \in 1..Len(ChunkResolverRows) :
        ChunkResolverRows[i].match_source = ClaimedSource(ChunkResolverRows[i])

\* C3: a record whose match_source is mfr_full_single (mfr_partial_single)
\* has as device_version_id the identifier of the single registry candidate
\* of its full (partial) key, whether or not it carries a raw identifier.
C3_SingleAdoptsCandidate ==
    \A i \in 1..Len(ChunkResolverRows) :
        LET r == ChunkResolverRows[i]
        IN  /\ r.match_source = "mfr_full_single"
                => FullCandidates(r) = {r.device_version_id}
            /\ r.match_source = "mfr_partial_single"
                => PartialCandidates(r) = {r.device_version_id}

\* What else than an ambiguous key can have given r its device_version_id:
\* the identifier mapping, the record's own identifier, or the other key
\* when that one is singular.
OtherProvenance(r, otherCount, otherCandidates) ==
    {udi_mapping[i].mapped_primary_udi : i \in EntriesOf(r.udi_combined)}
        \cup {r.udi_combined}
        \cup (IF otherCount = 1 THEN otherCandidates ELSE {})

\* C4: a composite key whose count is greater than 1 never yields
\* mfr_full_single / mfr_partial_single for that key, and no record takes its
\* device_version_id from the candidates of such a key.
C4_AmbiguityNonGuessing ==
    \A i \in 1..Len(ChunkResolverRows) :
        LET r == ChunkResolverRows[i]
        IN  /\ FullCountOf(r) > 1 =>
                /\ r.match_source # "mfr_full_single"
                /\ r.device_version_id \in FullCandidates(r) =>
                     r.device_version_id \in
                        OtherProvenance(r, PartialCountOf(r), PartialCandidates(r))
            /\ PartialCountOf(r) > 1 =>
                /\ r.match_source # "mfr_partial_single"
                /\ r.device_version_id \in PartialCandidates(r) =>
                     r.device_version_id \in
                        OtherProvenance(r, FullCountOf(r), FullCandidates(r))

\* A record without identifier whose full key has two candidates came out of
\* ChunkResolver as mfr_full_multiple, without device_version_id.
C4_Witness ==
    \E i \in 1..Len(ChunkResolverRows) :
        LET r == ChunkResolverRows[i]
        IN  /\ FullCountOf(r) > 1 /\ Cardinality(FullCandidates(r)) = 2
            /\ r.udi_combined = NULL
            /\ r.match_source = "mfr_full_multiple"
            /\ r.device_version_id = NULL

\* C5: an identifier has match type udi_secondary only if exactly one
\* distinct primary identifier of the whole registry lists it as a secondary
\* identifier; no event citing an identifier listed by two primaries gets
\* match_source udi_secondary.
C5_SecondaryOnlyIfUnique ==
    /\ \A i \in 1..Len(udi_mapping) :
            udi_mapping[i].udi_match_type = "udi_secondary"
                => Cardinality(PrimariesBehind(udi_mapping[i].udi_combined)) = 1
    /\ \A i \in 1..Len(ChunkResolverRows) :
            ChunkResolverRows[i].match_source = "udi_secondary"
                => Cardinality(PrimariesBehind(ChunkResolverRows[i].udi_combined)) = 1

\* Two primaries list the identifier in two different registry chunks, and
\* the event citing it was resolved otherwise than udi_secondary.
C5_Witness ==
    /\ pc = "done"
    /\ chunk_size = 1
    /\ \E i \in 1..Len(files["output"]) :
        LET r == files["output"][i]
        IN  /\ r.udi_combined # NULL
            /\ Cardinality(PrimariesBehind(r.udi_combined)) = 2
            /\ r.match_source # "udi_secondary"

\* C6: the merged per-secondary-identifier count equals the number of
\* distinct primary identifiers that list the identifier in the whole
\* registry, whatever the chunk size.
C6_MergeEqualsWhole ==
    \A i \in 1..Len(secondary_mapping_all) :
        secondary_mapping_all[i].n_primary =
            Cardinality(PrimariesBehind(secondary_mapping_all[i].secondary_list))

\* C7: ChunkResolver has written one row per event row read, FallbackResolver
\* one row per row read.
C7_RowConservation ==
    /\ pc = "process_all" => Len(files["temp"]) = Min(offset, Len(maude_lf))
    /\ pc = "post_process" =>
            /\ Len(files["temp"]) = Len(maude_lf)
            /\ Len(files["resolved"]) = Min(offset, Len(files["temp"]))
    /\ pc = "done" => Len(files["output"]) = Len(maude_lf)

\* Two events citing the same identifier, one matched on both composite keys,
\* went through both stages.
C7_Witness ==
    /\ pc = "done"
    /\ Len(files["output"]) = 2
    /\ files["output"][1].udi_combined # NULL
    /\ files["output"][1].udi_combined = files["output"][2].udi_combined
    /\ TypesOf(files["output"][1].udi_combined) # {}
    /\ FullCountOf(files["output"][1]) >= 1
    /\ PartialCountOf(files["output"][1]) >= 1

\* C8: every event identifier that is a primary identifier of the
\* PrimaryIndex is in the mapping as udi_direct, resolved to itself, and was
\* not sent to the secondary pass.
C8_DirectUnconditional ==
    MappingBuilt =>
        \A u \in EventIdentifiers :
            (\E i \in 1..Len(udi_di_lookup) : udi_di_lookup[i].udi_di = u) =>
                /\ \E i \in EntriesOf(u) :
                        /\ udi_mapping[i].udi_match_type = "udi_direct"
                        /\ udi_mapping[i].mapped_primary_udi = u
                /\ \A i \in 1..Len(primary_failed) : primary_failed[i].udi_combined # u

\* C9: every event identifier matched neither directly nor through a
\* secondary identifier is in the mapping as udi_no_match, resolved to
\* itself; no entry of the mapping has a null resolved identifier.
C9_IdentityFallback ==
    MappingBuilt =>
        /\ \A u \in EventIdentifiers :
                TypesOf(u) \cap {"udi_direct", "udi_secondary"} = {} =>
                    \E i \in EntriesOf(u) :
                        /\ udi_mapping[i].udi_match_type = "udi_no_match"
                        /\ udi_mapping[i].mapped_primary_udi = u
        /\ \A i \in 1..Len(udi_mapping) : udi_mapping[i].mapped_primary_udi # NULL

\* C10: with no secondary-identifier columns the secondary pass is skipped:
\* the registry is never scanned, every identifier the direct pass matched is
\* udi_direct, every other one is udi_no_match resolved to itself.
C10_NoSecondaryColumns ==
    ~secondary_cols =>
        /\ pc # "secondary_scan"
        /\ ~("temp_secondary" \in exists)
        /\ MappingBuilt =>
            \A u \in EventIdentifiers :
                /\ Cardinality(EntriesOf(u)) = 1
                /\ \A i \in EntriesOf(u) :
                    IF \E j \in 1..Len(primary_success) :
                            primary_success[j].udi_combined = u
                    THEN udi_mapping[i].udi_match_type = "udi_direct"
                    ELSE /\ udi_mapping[i].udi_match_type = "udi_no_match"
                         /\ udi_mapping[i].mapped_primary_udi = u

\* A registry without secondary columns, one identifier matched directly and
\* one not.
C10_Witness ==
    /\ ~secondary_cols
    /\ MappingBuilt
    /\ \E i, j \in 1..Len(udi_mapping) :
        /\ udi_mapping[i].udi_match_type = "udi_direct"
        /\ udi_mapping[j].udi_match_type = "udi_no_match"

\* The "+" of C11 and of the identifier formats: the parts written one after
\* the other, a part that is absent adding nothing.
Plus(parts) == JoinParts(MapSeq(parts, LAMBDA p : IF p = NULL THEN "" ELSE p))

\* The manufacturer's missing rate, over the whole ChunkResolver output,
\* strictly exceeds one half.
MissingRateExceeds(mfr) ==
    LET g == SelectSeq(ChunkResolverRows, LAMBDA r : r.mfr_std = mfr)
        missing == Len(SelectSeq(g, LAMBDA r : r.udi_combined = NULL))
    IN  2 * missing > Len(g)

\* The identifier C11 gives a record of the rewrite set.
ClaimedFallbackId(r) ==
    IF r.udi_combined # NULL THEN r.udi_combined
    ELSE IF MissingRateExceeds(r.mfr_std)
         THEN Plus(<<"LOW_", r.mfr_std, "_", r.brand_final>>)
    ELSE Plus(<<"UNK_", r.mfr_std, "_", r.brand_final, "_", r.catalog_number_final>>)

\* C11: in pass 2 of FallbackResolver every record whose match_source is
\* mfr_full_multiple, mfr_partial_multiple or no_match gets as
\* device_version_id its own raw identifier when it has one, else
\* "LOW_" + manufacturer + "_" + brand when the manufacturer's missing rate is
\* strictly above 0.50, else "UNK_" + manufacturer + "_" + brand + "_" +
\* catalog; a missing rate of exactly 0.50 is not low-compliance.
C11_FallbackIdentity ==
    pc = "post_process" =>
        \A i \in 1..Len(files["resolved"]) :
            ChunkResolverRows[i].match_source \in RewriteSet =>
                files["resolved"][i].device_version_id =
                    ClaimedFallbackId(ChunkResolverRows[i])

\* C11 on the records all of whose name parts are present.
C11_PartsPresent ==
    pc = "post_process" =>
        \A i \in 1..Len(files["resolved"]) :
            /\ ChunkResolverRows[i].match_source \in RewriteSet
            /\ ChunkResolverRows[i].catalog_number_final # NULL
            => files["resolved"][i].device_version_id =
                    ClaimedFallbackId(ChunkResolverRows[i])

\* The grade the precedence list of C12 gives record r: the MEDIUM conditions
\* are tried before the LOW one.
ClaimedConfidence(r) ==
    IF r.match_source = "udi_direct" THEN "HIGH"
    ELSE IF ContainsSingle(r.match_source) \/ r.udi_combined # NULL THEN "MEDIUM"
    ELSE IF ContainsMultiple(r.match_source) THEN "LOW"
    ELSE "VERY_LOW"

\* C12: the confidence grade follows the precedence HIGH if match_source is
\* udi_direct; otherwise MEDIUM if match_source contains "single" or the
\* record has a non-null identifier that could not be cross-referenced;
\* otherwise LOW if match_source contains "multiple"; otherwise VERY_LOW.
\* (Records resolved through a secondary identifier are cross-referenced and
\* not direct; the statement is taken on all the others.)
C12_ConfidencePrecedence ==
    \A i \in 1..Len(FallbackRows) :
        FallbackRows[i].match_source # "udi_secondary" =>
            FallbackRows[i].udi_confidence = ClaimedConfidence(FallbackRows[i])

\* C12 on the records that do not have both an identifier and a *_multiple
\* source.
C12_ExceptMultipleWithIdentifier ==
    \A i \in 1..Len(FallbackRows) :
        /\ FallbackRows[i].match_source # "udi_secondary"
        /\ ~(ContainsMultiple(FallbackRows[i].match_source)
             /\ FallbackRows[i].udi_combined # NULL)
        => FallbackRows[i].udi_confidence = ClaimedConfidence(FallbackRows[i])

\* The rank of a confidence grade: HIGH > MEDIUM > LOW > VERY_LOW.
Rank(grade) ==
    CASE grade = "HIGH" -> 4
      [] grade = "MEDIUM" -> 3
      [] grade = "LOW" -> 2
      [] OTHER -> 1

\* C13: of any two resolved records, one with match_source udi_direct and one
\* with mfr_partial_multiple, the confidence of the first ranks at least as
\* high as that of the second.
C13_ConfidenceOrdering ==
    \A i, j \in 1..Len(FallbackRows) :
        /\ FallbackRows[i].match_source = "udi_direct"
        /\ FallbackRows[j].match_source = "mfr_partial_multiple"
        => Rank(FallbackRows[i].udi_confidence) >= Rank(FallbackRows[j].udi_confidence)

\* The finished output holds a udi_direct record and an mfr_partial_multiple
\* record.
C13_Witness ==
    /\ pc = "done"
    /\ \E i, j \in 1..Len(files["output"]) :
        /\ files["output"][i].match_source = "udi_direct"
        /\ files["output"][j].match_source = "mfr_partial_multiple"

\* The distinct primary identifiers of the registry rows under a full /
\* partial composite key (null is a key value like any other in group_by).
DistinctUnderFull(e) ==
    {udi_lf[j].udi_di : j \in {k \in 1..Len(udi_lf) :
        /\ udi_lf[k].manufacturer = e.manufacturer
        /\ udi_lf[k].brand = e.brand
        /\ udi_lf[k].catalog_number = e.catalog_number}}
DistinctUnderPartial(e) ==
    {udi_lf[j].udi_di : j \in {k \in 1..Len(udi_lf) :
        /\ udi_lf[k].manufacturer = e.manufacturer
        /\ udi_lf[k].brand = e.brand}}

LookupsBuilt == pc \notin {"start", "preprocessed", "mapping_built", "normalized"}

\* C14: in both composite indices the stored count of a key is the number of
\* distinct primary identifiers under it, not the number of registry rows, so
\* a key is singular exactly when one distinct primary identifier shares it.
C14_CountIsDistinct ==
    LookupsBuilt =>
        /\ \A i \in 1..Len(mfr_lookup_full) :
            mfr_lookup_full[i].n_versions_full =
                Cardinality(DistinctUnderFull(mfr_lookup_full[i]))
        /\ \A i \in 1..Len(mfr_lookup_partial) :
            mfr_lookup_partial[i].n_versions_partial =
                Cardinality(DistinctUnderPartial(mfr_lookup_partial[i]))

\* C14 on the registries that hold each primary identifier once.
C14_NoDuplicatePrimary ==
    (LookupsBuilt /\ \A j, k \in 1..Len(udi_lf) :
                        udi_lf[j].udi_di = udi_lf[k].udi_di => j = k)
    => C14_CountIsDistinct

\* The position of the first registry row of primary identifier u.
FirstSeen(u) ==
    CHOOSE j \in 1..Len(udi_lf) :
        /\ udi_lf[j].udi_di = u
        /\ \A k \in 1..(j - 1) : udi_lf[k].udi_di # u

\* The PrimaryIndex entries of primary identifier u.
PrimaryEntries(u) == {i \in 1..Len(udi_di_lookup) : udi_di_lookup[i].udi_di = u}

\* C15: when registry rows share a primary identifier, PrimaryIndex keeps
\* exactly one entry for it, and that entry is the first-seen row in registry
\* order, on every build.
C15_FirstSeenKept ==
    LookupsBuilt =>
        \A u \in {udi_lf[j].udi_di : j \in 1..Len(udi_lf)} :
            /\ Cardinality(PrimaryEntries(u)) = 1
            /\ \A i \in PrimaryEntries(u) :
                /\ udi_di_lookup[i].manufacturer = udi_lf[FirstSeen(u)].manufacturer
                /\ udi_di_lookup[i].brand = udi_lf[FirstSeen(u)].brand
                /\ udi_di_lookup[i].model_number = udi_lf[FirstSeen(u)].model_number
                /\ udi_di_lookup[i].catalog_number = udi_lf[FirstSeen(u)].catalog_number

\* The part of C15 that does not depend on which duplicate is kept: one entry
\* per primary identifier, taken from one of its registry rows.
C15_OneEntryPerPrimary ==
    LookupsBuilt =>
        \A u \in {udi_lf[j].udi_di : j \in 1..Len(udi_lf)} :
            /\ Cardinality(PrimaryEntries(u)) = 1
            /\ \A i \in PrimaryEntries(u) :
                \E j \in 1..Len(udi_lf) :
                    /\ udi_lf[j].udi_di = u
                    /\ udi_di_lookup[i].manufacturer = udi_lf[j].manufacturer
                    /\ udi_di_lookup[i].catalog_number = udi_lf[j].catalog_number

\* A whole run of process() on the inputs of this run, as a function of the
\* PrimaryIndex the build produced (the one choice polars leaves open).
RECURSIVE SecondaryScan(_, _)
SecondaryScan(off, failed_udi_list) ==
    IF off >= Len(udi_lf) THEN <<>>
    ELSE build_secondary_mapping_chunk(Slice(udi_lf, off, chunk_size),
                                       failed_udi_list)
         \o SecondaryScan(off + chunk_size, failed_udi_list)

RunMapping(lookup) ==
    LET joined == udi_with_primary(unique_udi(maude_lf), lookup)
        success == PrimarySuccess(joined)
        failed == PrimaryFailed(joined)
    IN  IF secondary_cols /\ Len(failed) > 0
        THEN concat_mapping(success,
                secondary_join(failed,
                    merge_secondary(SecondaryScan(0,
                        {failed[i].udi_combined : i \in 1..Len(failed)}))))
        ELSE concat_mapping(success, secondary_skip(failed))

RunOutput(lookup) ==
    LET temp == transform_chunk(maude_lf, RunMapping(lookup),
                                build_lookup_full(udi_lf),
                                build_lookup_partial(udi_lf))
    IN  resolve_chunk(temp, LowCompliance(temp))

\* Two outputs hold the same rows the same number of times, in any order.
SameRows(s, t) ==
    /\ Len(s) = Len(t)
    /\ \A x \in Range(s) \cup Range(t) :
        Cardinality({i \in 1..Len(s) : s[i] = x})
            = Cardinality({i \in 1..Len(t) : t[i] = x})

\* C16: two runs of the full pipeline on identical inputs and configuration
\* give the same multiset of output rows: the output of a finished run equals
\* the output of every run the same inputs allow, whichever duplicate registry
\* row a build keeps.
C16_Deterministic ==
    pc = "done" =>
        \A keep \in KeepChoices(udi_lf) :
            SameRows(files["output"], RunOutput(PrimaryIndexFor(udi_lf, keep)))

\* The finished output is the output of the run with the PrimaryIndex this run
\* built.
C16_OwnRun ==
    pc = "done" => files["output"] = RunOutput(udi_di_lookup)

\* C17: ChunkResolver appends chunk k to durable storage before chunk k+1
\* starts processing: while it runs and at every failure point the output
\* holds, whole and in order, every chunk before the one in flight and nothing
\* of the one in flight.
C17_ChunkDurability ==
    pc \in {"process_all", "failed"} =>
        /\ offset % chunk_size = 0
        /\ Len(ChunkResolverRows) = Min(offset, Len(maude_lf))
        /\ \A i \in 1..Len(ChunkResolverRows) :
            /\ "match_source" \in DOMAIN ChunkResolverRows[i]
            /\ RawEvents(ChunkResolverRows)[i] = RawEvents(maude_lf)[i]

\* A write failure after a first chunk was written, with a chunk in flight.
C17_Witness ==
    /\ pc = "failed"
    /\ Len(ChunkResolverRows) > 0
    /\ offset < Len(maude_lf)

\* C18: after a write failure in the middle of a chunk, the re-run processes
\* only the chunks not yet confirmed written: no chunk of any chunk loop is
\* computed and written a second time, and the final output holds each input
\* row exactly once.
C18_ResumeOnlyUnwritten ==
    /\ \A i, j \in 1..Len(chunk_log) : chunk_log[i] = chunk_log[j] => i = j
    /\ pc = "done" =>
        /\ Len(files["output"]) = Len(maude_lf)
        /\ \A i \in 1..Len(maude_lf) :
            RawEvents(files["output"])[i] = RawEvents(maude_lf)[i]

\* C18 on the chunks of ChunkResolver and FallbackResolver alone, leaving out
\* the registry scan of build_udi_mapping.
C18_EventChunksOnly ==
    /\ \A i, j \in 1..Len(chunk_log) :
        (chunk_log[i] = chunk_log[j] /\ chunk_log[i][1] # "temp_secondary") => i = j
    /\ pc = "done" =>
        /\ Len(files["output"]) = Len(maude_lf)
        /\ \A i \in 1..Len(maude_lf) :
            RawEvents(files["output"])[i] = RawEvents(maude_lf)[i]

\* C19: the stages run strictly in sequence.  FallbackResolver reads only
\* after ChunkResolver has written every chunk, and its pass 1 is complete over
\* the full resolved output before any chunk is rewritten: every rewritten row
\* is resolved against the one low-compliance set of the whole output.
C19_StagesInSequence ==
    pc = "post_process" =>
        /\ Len(ChunkResolverRows) = Len(maude_lf)
        /\ low_compliance_mfrs =
            {m \in {ChunkResolverRows[i].mfr_std : i \in 1..Len(ChunkResolverRows)} :
                MissingRateExceeds(m)}
        /\ \A i \in 1..Len(files["resolved"]) :
            files["resolved"][i] = resolve_row(ChunkResolverRows[i], low_compliance_mfrs)

\* FallbackResolver has rewritten the first of two chunks, against a
\* non-empty low-compliance set.
C19_Witness ==
    /\ pc = "post_process"
    /\ chunk_size = 1
    /\ Len(ChunkResolverRows) = 2
    /\ Len(files["resolved"]) = 1
    /\ low_compliance_mfrs # {}

\* C20: once built, mfr_mapping, udi_di_lookup, mfr_lookup_full,
\* mfr_lookup_partial and udi_mapping are not modified by any chunk of
\* ChunkResolver or FallbackResolver, nor by the steps between them.
C20_SharedStateImmutable ==
    [][(pc \in {"process_all", "post_process"}) =>
        (UNCHANGED <<mfr_mapping, udi_di_lookup, mfr_lookup_full,
                     mfr_lookup_partial, udi_mapping>>)]_vars

\* Two chunks went through both stages with all five tables non-empty.
C20_Witness ==
    /\ pc = "done"
    /\ chunk_size = 1
    /\ Len(files["output"]) = 2
    /\ mfr_mapping # <<>>
    /\ udi_di_lookup # <<>>
    /\ mfr_lookup_full # <<>>
    /\ mfr_lookup_partial # <<>>
    /\ udi_mapping # <<>>

\* C21: ChunkResolver processes every chunk independently: the row it writes
\* for a record is the row it would write for that record alone in a chunk,
\* given the same indices and mapping table, whatever the chunk size and the
\* other records of the chunk.
C21_ChunkIndependence ==
    pc \in {"process_all", "post_process"} =>
        /\ Len(ChunkResolverRows) <= Len(maude_lf)
        /\ \A i \in 1..Len(ChunkResolverRows) :
            <<ChunkResolverRows[i]>> =
                transform_chunk(<<maude_lf[i]>>, udi_mapping,
                                mfr_lookup_full, mfr_lookup_partial)

\* A chunk of two records was written, the second one unresolved and the first
\* one resolved.
C21_Witness ==
    /\ pc = "process_all"
    /\ chunk_size = 2
    /\ Len(ChunkResolverRows) = 2
    /\ ChunkResolverRows[1].device_version_id # NULL
    /\ ChunkResolverRows[2].device_version_id = NULL

\* C22: FallbackResolver rewrites only the rows whose match_source is
\* mfr_full_multiple, mfr_partial_multiple or no_match; every other row keeps
\* its device_version_id, its match_source and every other field ChunkResolver
\* produced.
C22_OtherRowsUnchanged ==
    pc = "post_process" =>
        \A i \in 1..Len(files["resolved"]) :
            ChunkResolverRows[i].match_source \notin RewriteSet =>
                \A f \in DOMAIN ChunkResolverRows[i] :
                    files["resolved"][i][f] = ChunkResolverRows[i][f]

\* FallbackResolver wrote a row resolved through a singular composite key and
\* a row of the rewrite set.
C22_Witness ==
    /\ pc = "post_process"
    /\ \E i, j \in 1..Len(files["resolved"]) :
        /\ ChunkResolverRows[i].match_source = "mfr_full_single"
        /\ ChunkResolverRows[i].udi_combined = NULL
        /\ ChunkResolverRows[j].match_source \in RewriteSet

\* The manufacturer's fraction of records with no resolved identifier at all,
\* over the whole ChunkResolver output, strictly exceeds one half.
UnresolvedRateExceeds(mfr) ==
    LET g == SelectSeq(ChunkResolverRows, LAMBDA r : r.mfr_std = mfr)
        unresolved == Len(SelectSeq(g, LAMBDA r : r.device_version_id = NULL))
    IN  2 * unresolved > Len(g)

\* C23: the missing rate of pass 1 is the fraction of the manufacturer's
\* records that have no resolved identifier at all, over all of its records in
\* the resolved output: a record without raw identifier that a singular
\* composite key resolved is not missing.  So the low-compliance manufacturers
\* are those whose fraction of unresolved records is above the threshold.
C23_MissingRateOverResolved ==
    pc = "post_process" =>
        low_compliance_mfrs =
            {m \in {ChunkResolverRows[i].mfr_std : i \in 1..Len(ChunkResolverRows)} :
                UnresolvedRateExceeds(m)}

\* C23, amended: the missing rate of pass 1 is the fraction of the
\* manufacturer's records whose raw combined identifier is null, over all of
\* its records in the ChunkResolver output; a record without raw identifier
\* counts as missing also when a singular composite key resolved it.
C23_MissingRateOverRaw ==
    pc = "post_process" =>
        low_compliance_mfrs =
            {m \in {ChunkResolverRows[i].mfr_std : i \in 1..Len(ChunkResolverRows)} :
                MissingRateExceeds(m)}

\* Pass 1 flagged a manufacturer all of whose records lack a raw identifier
\* and one of whose records a singular composite key resolved.
C23_Witness ==
    /\ pc = "post_process"
    /\ \E i \in 1..Len(ChunkResolverRows) :
        /\ ChunkResolverRows[i].udi_combined = NULL
        /\ ContainsSingle(ChunkResolverRows[i].match_source)
        /\ ChunkResolverRows[i].device_version_id # NULL
        /\ ChunkResolverRows[i].mfr_std \in low_compliance_mfrs

\* The match_source values of the composite-key tiers.
KeyTierSources ==
    {"mfr_full_single", "mfr_partial_single", "mfr_full_multiple",
     "mfr_partial_multiple", "no_match"}

\* C24: the combined identifier of a record is its declared identifier when
\* that is non-null, else the identifier extracted from the encoded field, else
\* null.  A failed extraction gives a null identifier, and the record then goes
\* through the composite-key tiers exactly like the same record without an
\* encoded field.
C24_CombinedIdentifier ==
    /\ pc # "start" =>
        \A i \in 1..Len(maude_lf) :
            maude_lf[i].udi_combined =
                IF maude_lf[i].udi_di # NULL THEN maude_lf[i].udi_di
                ELSE IF maude_lf[i].udi_public = "(01)S1" THEN "S1"
                ELSE NULL
    /\ pc \in {"process_all", "post_process"} =>
        \A i \in 1..Len(ChunkResolverRows) :
            (maude_lf[i].udi_di = NULL /\ maude_lf[i].udi_public \notin {NULL, "(01)S1"})
            => /\ ChunkResolverRows[i].udi_combined = NULL
               /\ ChunkResolverRows[i].match_source \in KeyTierSources
               /\ <<[ChunkResolverRows[i] EXCEPT !.udi_public = NULL]>> =
                    transform_chunk(<<[maude_lf[i] EXCEPT !.udi_public = NULL]>>,
                                    udi_mapping, mfr_lookup_full, mfr_lookup_partial)

\* ChunkResolver resolved a record with a malformed encoded field through a
\* singular composite key, next to a record whose identifier was extracted.
C24_Witness ==
    /\ pc = "process_all"
    /\ \E i, j \in 1..Len(ChunkResolverRows) :
        /\ ChunkResolverRows[i].udi_public = "(01"
        /\ ChunkResolverRows[i].match_source = "mfr_full_single"
        /\ ChunkResolverRows[j].udi_source = "extracted"
        /\ ChunkResolverRows[j].udi_combined = "S1"

\* C25: FallbackResolver never replaces a non-null device_version_id: a row
\* whose device_version_id was non-null after ChunkResolver has the same value
\* after FallbackResolver, and a row whose value changed had a null
\* device_version_id and no raw identifier.
C25_NonNullIdentityKept ==
    pc = "post_process" =>
        \A i \in 1..Len(files["resolved"]) :
            /\ ChunkResolverRows[i].device_version_id # NULL =>
                files["resolved"][i].device_version_id =
                    ChunkResolverRows[i].device_version_id
            /\ files["resolved"][i].device_version_id #
                    ChunkResolverRows[i].device_version_id =>
                /\ ChunkResolverRows[i].udi_combined = NULL
                /\ ~ContainsSingle(ChunkResolverRows[i].match_source)

\* FallbackResolver wrote a row of the rewrite set that kept its own
\* identifier, and a row that received a synthesized identifier.
C25_Witness ==
    /\ pc = "post_process"
    /\ \E i, j \in 1..Len(files["resolved"]) :
        /\ ChunkResolverRows[i].match_source \in RewriteSet
        /\ ChunkResolverRows[i].device_version_id # NULL
        /\ ChunkResolverRows[j].device_version_id = NULL
        /\ files["resolved"][j].device_version_id # NULL

\* C26: every record with a non-null combined identifier finds an entry in the
\* mapping table and never gets match_source no_match, so no_match implies a
\* null combined identifier, and confidence VERY_LOW is assigned exactly to
\* the rows with match_source no_match.
C26_NoMatchMeansNoIdentifier ==
    /\ MappingBuilt =>
        \A u \in EventIdentifiers : EntriesOf(u) # {}
    /\ \A i \in 1..Len(ChunkResolverRows) :
        ChunkResolverRows[i].match_source = "no_match" =>
            ChunkResolverRows[i].udi_combined = NULL
    /\ \A i \in 1..Len(FallbackRows) :
        FallbackRows[i].udi_confidence = "VERY_LOW"
            <=> FallbackRows[i].match_source = "no_match"

\* C26 on the runs that skip the secondary pass.
C26_WithoutSecondaryPass ==
    (~secondary_cols) => C26_NoMatchMeansNoIdentifier

\* C27: the mapping table has exactly one entry per distinct non-null combined
\* identifier of the event stream: the direct, secondary and no_match entries
\* are pairwise disjoint and together cover all distinct identifiers.
C27_OneEntryPerIdentifier ==
    MappingBuilt =>
        /\ \A u \in EventIdentifiers : Cardinality(EntriesOf(u)) = 1
        /\ \A i \in 1..Len(udi_mapping) : udi_mapping[i].udi_combined \in EventIdentifiers

\* The part of C27 that holds: no identifier has two entries, and every entry
\* is an identifier of the event stream.
C27_KeyUnique ==
    MappingBuilt =>
        /\ \A u \in EventIdentifiers : Cardinality(EntriesOf(u)) <= 1
        /\ \A i \in 1..Len(udi_mapping) : udi_mapping[i].udi_combined \in EventIdentifiers

\* The first identifier listed under r's full / partial key.
FullFirstOf(r) ==
    ListFirst(mfr_lookup_full[CHOOSE i \in FullHits(r) : TRUE].udi_list_full)
PartialFirstOf(r) ==
    ListFirst(mfr_lookup_partial[CHOOSE i \in PartialHits(r) : TRUE].udi_list_partial)

\* C28: for every event record that matches both a full and a partial
\* composite key the partial-key count is at least the full-key count; so no
\* record is mfr_partial_single while its full key has count > 1, and when
\* both counts are 1 both keys name the same candidate identifier.
C28_PartialCoversFull ==
    \A i \in 1..Len(ChunkResolverRows) :
        LET r == ChunkResolverRows[i]
        IN  /\ (FullHits(r) # {} /\ PartialHits(r) # {}) =>
                PartialCountOf(r) >= FullCountOf(r)
            /\ r.match_source = "mfr_partial_single" => ~(FullCountOf(r) > 1)
            /\ (FullCountOf(r) = 1 /\ PartialCountOf(r) = 1) =>
                FullFirstOf(r) = PartialFirstOf(r)

\* ChunkResolver wrote a record without identifier whose full key has count 1
\* and whose partial key has count 2.
C28_Witness ==
    \E i \in 1..Len(ChunkResolverRows) :
        /\ ChunkResolverRows[i].udi_combined = NULL
        /\ FullCountOf(ChunkResolverRows[i]) = 1
        /\ PartialCountOf(ChunkResolverRows[i]) = 2
        /\ ChunkResolverRows[i].match_source = "mfr_full_single"

\* ---------------------------------------------------------------- C29
\* The attributes each stage of process() reads from self.
ReadBy(stage) ==
    CASE stage = "mapping_built" -> {"mfr_mapping"}
      [] stage = "lookup_built" -> {"udi_di_lookup"}
      [] stage = "secondary_scan" -> {"udi_di_lookup"}
      [] stage = "process_all" ->
            {"udi_mapping", "mfr_lookup_full", "mfr_lookup_partial"}
      [] OTHER -> {}

\* C29: every shared artifact is assigned before the first stage that reads
\* it: mfr_mapping when apply_normalization is about to run, the three lookup
\* tables when build_udi_mapping is about to run, udi_mapping (which the
\* constructor leaves unset) whenever process_all runs; no stage reads an
\* attribute of self that has not been assigned.
C29_BuiltBeforeRead ==
    /\ ReadBy(pc) \subseteq built
    /\ pc = "mapping_built" => "mfr_mapping" \in built
    /\ pc = "lookup_built" =>
            {"udi_di_lookup", "mfr_lookup_full", "mfr_lookup_partial"} \subseteq built
    /\ pc = "process_all" => "udi_mapping" \in built

\* process_all has joined a chunk against udi_mapping and the two key tables,
\* all five artifacts assigned.
C29_Witness ==
    /\ pc = "process_all"
    /\ offset > 0
    /\ built = {"mfr_mapping", "udi_di_lookup", "mfr_lookup_full",
                "mfr_lookup_partial", "udi_mapping"}

\* ---------------------------------------------------------------- C30
\* C30: the dataset at output_path comes into being only at the end of a
\* run, as the complete FallbackResolver result: whenever it exists the run
\* is done, it holds one row per event and every row carries a confidence;
\* before that it holds nothing; and once the run is done neither the
\* ChunkResolver file, nor the FallbackResolver file it was renamed from, nor
\* the secondary-mapping file exists.
C30_OutputOnlyByRename ==
    /\ "output" \in exists => pc = "done"
    /\ "output" \notin exists => files["output"] = <<>>
    /\ Len(files["output"]) \in {0, Len(maude_lf)}
    /\ \A i \in 1..Len(files["output"]) :
            /\ "udi_confidence" \in DOMAIN files["output"][i]
            /\ files["output"][i].udi_confidence \in
                    {"HIGH", "MEDIUM", "LOW", "VERY_LOW"}
    /\ pc = "done" => exists = {"output"}

\* A finished run that wrote events and went through the secondary scan.
C30_Witness ==
    /\ pc = "done"
    /\ Len(files["output"]) = 2
    /\ \E k \in 1..Len(chunk_log) : chunk_log[k][1] = "temp_secondary"
    /\ \E k \in 1..Len(chunk_log) : chunk_log[k][1] = "temp"
====
